---------------------------- MODULE Spec2Model ----------------------------
(***************************************************************************)
(* The Note entity (notes/models.py) and its admin registration            *)
(* (notes/admin.py), as a state machine over the two tables the code       *)
(* touches: the user table the owner key points to and the note table.     *)
(*                                                                         *)
(* A text value is a sequence of one-character strings.  A write presents  *)
(* the editable fields (title, content, owner) to the model as a record    *)
(* whose domain holds the fields that were given; the model's field        *)
(* declarations are enforced by validation (full_clean, which the          *)
(* registered ModelAdmin's add and change forms run) and the row is then   *)
(* saved, the two auto timestamps being stamped by pre_save.               *)
(* The clock is read by each stamp and never runs backwards.               *)
(***************************************************************************)
EXTENDS Integers, Sequences, FiniteSets, TLC

VARIABLES
    users,       \* the user table: user id -> username
    notes,       \* the note table: note id -> row
    nextUserId,  \* the user table's auto-increment counter
    nextNoteId,  \* the note table's auto-increment counter
    now,         \* the last reading of the clock
    request,     \* the operation last submitted
    response     \* what it returned

vars == <<users, notes, nextUserId, nextNoteId, now, request, response>>
tables == <<users, notes, nextUserId, nextNoteId>>

(***************************************************************************)
(* Bounds of the model.                                                    *)
(***************************************************************************)
MaxUsers == 2
MaxNotes == 2
MaxTime == 2
MaxQuery == 3

(***************************************************************************)
(* Constants of the program.                                               *)
(***************************************************************************)
max_length == 200
LabelLen == 50

(***************************************************************************)
(* Text.                                                                   *)
(***************************************************************************)
Min(a, b) == IF a <= b THEN a ELSE b

Rep(c, n) == [i \in 1..n |-> c]

Restrict(f, S) == [x \in S |-> f[x]]

Lower(c) == CASE c = "A" -> "a"
              [] c = "B" -> "b"
              [] OTHER -> c

LowerStr(s) == [i \in 1..Len(s) |-> Lower(s[i])]

\* field__icontains: w is a substring of s, letter case ignored.
IContains(s, w) ==
    \E k \in 0..(Len(s) - Len(w)) :
        LowerStr(SubSeq(s, k + 1, k + Len(w))) = LowerStr(w)

(***************************************************************************)
(* The Note model: its fields and their validation.                        *)
(***************************************************************************)
Given(d, f) == f \in DOMAIN d

\* The mutant of TitleErrors: the length of the title is not checked.
TitleErrorsNoMaxLength(d) ==
    IF ~Given(d, "title") THEN {<<"title", "null">>}
    ELSE IF d.title = <<>> THEN {<<"title", "blank">>}
    ELSE {}

\* title = models.CharField(max_length=200): not null, not blank, and at
\* most max_length characters.
TitleErrors(d) ==
    IF ~Given(d, "title") THEN {<<"title", "null">>}
    ELSE IF d.title = <<>> THEN {<<"title", "blank">>}
    ELSE IF Len(d.title) > max_length THEN {<<"title", "max_length">>}
    ELSE {}

\* The mutant of ContentErrors: the field declared with blank=True.
ContentErrorsBlankAllowed(d) ==
    IF ~Given(d, "content") THEN {<<"content", "null">>}
    ELSE {}

\* content = models.TextField(): not null, not blank, of any length.
ContentErrors(d) ==
    IF ~Given(d, "content") THEN {<<"content", "null">>}
    ELSE IF d.content = <<>> THEN {<<"content", "blank">>}
    ELSE {}

\* owner = models.ForeignKey(AUTH_USER_MODEL, ...): not null, and the key
\* of a row of the user table.
OwnerErrors(d, us) ==
    IF ~Given(d, "owner") THEN {<<"owner", "null">>}
    ELSE IF d.owner \notin DOMAIN us THEN {<<"owner", "invalid">>}
    ELSE {}

\* The validation of a Note before it is written: every field's errors.
FullClean(d, us) == TitleErrors(d) \cup ContentErrors(d) \cup OwnerErrors(d, us)

\* The mutant of AutoNowAdd: created_at declared auto_now, stamped on every save.
AutoNowAddOnEverySave(add, old, t) == t

\* created_at = DateTimeField(auto_now_add=True): stamped when the row is
\* added, kept as it is on every later save.
AutoNowAdd(add, old, t) == IF add THEN t ELSE old

\* The mutant of AutoNow: updated_at stamped only when the row is added.
AutoNowOnlyOnAdd(add, old, t) == IF add THEN t ELSE old

\* updated_at = DateTimeField(auto_now=True): stamped on every save.
AutoNow(add, old, t) == t

\* The mutant of Row: the two stamps taken in the opposite order.
RowStampedBackwards(d, add, old, t1, t2) ==
    [title      |-> d.title,
     content    |-> d.content,
     owner      |-> d.owner,
     created_at |-> AutoNowAdd(add, old.created_at, t2),
     updated_at |-> AutoNow(add, old.updated_at, t1)]

\* The row a save writes: the given fields, and the two timestamps in the
\* order of their declaration, created_at reading the clock at t1 and
\* updated_at at t2 >= t1.
Row(d, add, old, t1, t2) ==
    [title      |-> d.title,
     content    |-> d.content,
     owner      |-> d.owner,
     created_at |-> AutoNowAdd(add, old.created_at, t1),
     updated_at |-> AutoNow(add, old.updated_at, t2)]

NoRow == [created_at |-> 0, updated_at |-> 0]

\* The mutant of Cascade: on_delete=DO_NOTHING, the notes stay.
CascadeDoNothing(ns, u) == ns

\* The mutant of Cascade: the notes of every user go.
CascadeAll(ns, u) == Restrict(ns, {})

\* on_delete=models.CASCADE: the notes that are left when user u is deleted.
Cascade(ns, u) == Restrict(ns, {n \in DOMAIN ns : ns[n].owner # u})

(***************************************************************************)
(* The operations.                                                         *)
(***************************************************************************)
Uname(u) == Rep("b", u)

\* A user is created (the user model is outside the repository).
CreateUser ==
    /\ nextUserId <= MaxUsers
    /\ users' = users @@ (nextUserId :> Uname(nextUserId))
    /\ nextUserId' = nextUserId + 1
    /\ request' = [op |-> "create_user", id |-> nextUserId]
    /\ response' = [ok |-> TRUE]
    /\ UNCHANGED <<notes, nextNoteId, now>>

\* A user is deleted, and in the same transaction the notes it owns.
DeleteUser(u) ==
    /\ u \in DOMAIN users
    /\ users' = Restrict(users, DOMAIN users \ {u})
    /\ notes' = Cascade(notes, u)
    /\ request' = [op |-> "delete_user", id |-> u]
    /\ response' = [ok |-> TRUE,
                    deleted |-> Cardinality(DOMAIN notes) - Cardinality(DOMAIN Cascade(notes, u))]
    /\ UNCHANGED <<nextUserId, nextNoteId, now>>

\* A note is added with the fields d: validated and, when valid, saved under
\* a new id, the clock read at t1 for created_at and at t2 for updated_at.
AddNote(d, t1, t2) ==
    /\ nextNoteId <= MaxNotes
    /\ now <= t1 /\ t1 <= t2
    /\ request' = [op |-> "add", id |-> nextNoteId, data |-> d]
    /\ IF FullClean(d, users) = {}
       THEN /\ notes' = notes @@ (nextNoteId :> Row(d, TRUE, NoRow, t1, t2))
            /\ nextNoteId' = nextNoteId + 1
            /\ now' = t2
            /\ response' = [ok |-> TRUE]
       ELSE /\ response' = [ok |-> FALSE, errors |-> FullClean(d, users)]
            /\ UNCHANGED <<notes, nextNoteId, now>>
    /\ UNCHANGED <<users, nextUserId>>

\* Note n is changed to the fields d: validated and, when valid, saved, the
\* clock read at t.
ChangeNote(n, d, t) ==
    /\ n \in DOMAIN notes
    /\ now <= t
    /\ request' = [op |-> "change", id |-> n, data |-> d]
    /\ IF FullClean(d, users) = {}
       THEN /\ notes' = [notes EXCEPT ![n] = Row(d, FALSE, notes[n], t, t)]
            /\ now' = t
            /\ response' = [ok |-> TRUE]
       ELSE /\ response' = [ok |-> FALSE, errors |-> FullClean(d, users)]
            /\ UNCHANGED <<notes, now>>
    /\ UNCHANGED <<users, nextUserId, nextNoteId>>

\* Note n is deleted.
DeleteNote(n) ==
    /\ n \in DOMAIN notes
    /\ notes' = Restrict(notes, DOMAIN notes \ {n})
    /\ request' = [op |-> "delete", id |-> n]
    /\ response' = [ok |-> TRUE]
    /\ UNCHANGED <<users, nextUserId, nextNoteId, now>>

\* The mutant of Ordering: ordering = ["updated_at"], oldest first.
OrderingAscending(a, b) == a.updated_at < b.updated_at

\* class Meta: ordering = ["-updated_at"]: row a comes before row b.
Ordering(a, b) == a.updated_at > b.updated_at

RECURSIVE Insert(_, _, _)
\* Id x put into the ordered list s, after the rows it does not come before.
Insert(ns, x, s) ==
    IF s = <<>> THEN <<x>>
    ELSE IF Ordering(ns[x], ns[Head(s)]) THEN <<x>> \o s
    ELSE <<Head(s)>> \o Insert(ns, x, Tail(s))

RECURSIVE OrderBy(_, _)
\* The rows, met by the database in the order base, sorted by Ordering;
\* rows Ordering does not tell apart stay in the order they were met.
OrderBy(ns, base) ==
    IF base = <<>> THEN <<>>
    ELSE Insert(ns, base[Len(base)], OrderBy(ns, SubSeq(base, 1, Len(base) - 1)))

Perms(S) ==
    {p \in [1..Cardinality(S) -> S] : \A i, j \in 1..Cardinality(S) : p[i] = p[j] => i = j}

\* The notes are listed with no order asked for.
ListNotes(base) ==
    /\ base \in Perms(DOMAIN notes)
    /\ request' = [op |-> "list"]
    /\ response' = [ok |-> TRUE, rows |-> OrderBy(notes, base)]
    /\ UNCHANGED <<users, notes, nextUserId, nextNoteId, now>>

\* The mutant of Str: the cut is one character late.
StrCutLate(row) == SubSeq(row.title, 1, Min(Len(row.title), LabelLen + 1))

\* def __str__(self): return self.title[:50]
Str(row) == SubSeq(row.title, 1, Min(Len(row.title), LabelLen))

\* The display label of note n is computed.
StrNote(n) ==
    /\ n \in DOMAIN notes
    /\ request' = [op |-> "str", id |-> n]
    /\ response' = [ok |-> TRUE, label |-> Str(notes[n])]
    /\ UNCHANGED <<users, notes, nextUserId, nextNoteId, now>>

\* The mutant of search_fields: the owner's username is not searched.
SearchFieldsNoUsername == <<"title", "content">>

\* search_fields = ("title", "content", "owner__username")
search_fields == <<"title", "content", "owner__username">>

\* The text of note n that a search field names.
Lookup(ns, us, n, f) ==
    CASE f = "title" -> ns[n].title
      [] f = "content" -> ns[n].content
      [] f = "owner__username" -> us[ns[n].owner]

RECURSIVE WordLen(_)
\* The length of the run of characters other than spaces that q starts with.
WordLen(q) ==
    IF q = <<>> \/ Head(q) = " " THEN 0 ELSE 1 + WordLen(Tail(q))

RECURSIVE SmartSplit(_)
\* The words of a search term: it is split at its spaces.
SmartSplit(q) ==
    IF q = <<>> THEN <<>>
    ELSE IF Head(q) = " " THEN SmartSplit(Tail(q))
    ELSE <<SubSeq(q, 1, WordLen(q))>> \o SmartSplit(SubSeq(q, WordLen(q) + 1, Len(q)))

\* ModelAdmin.get_search_results over search_fields: a note is kept when
\* every word of the term is found in one of the search fields at least.
GetSearchResults(ns, us, q) ==
    LET bits == SmartSplit(q)
    IN  {n \in DOMAIN ns :
            \A b \in 1..Len(bits) :
                \E f \in 1..Len(search_fields) :
                    IContains(Lookup(ns, us, n, search_fields[f]), bits[b])}

\* The admin's list of notes is searched for the term q.
Search(q) ==
    /\ request' = [op |-> "search", q |-> q]
    /\ response' = [ok |-> TRUE, ids |-> GetSearchResults(notes, users, q)]
    /\ UNCHANGED <<users, notes, nextUserId, nextNoteId, now>>

(***************************************************************************)
(* The lifecycle specification: users and notes come and go.               *)
(***************************************************************************)
Opt(name, S) == {<<>>} \cup {[k \in {name} |-> v] : v \in S}

FormData(Ts, Cs, Os) ==
    {t @@ c @@ o : t \in Opt("title", Ts), c \in Opt("content", Cs), o \in Opt("owner", Os)}

Times == 0..MaxTime

LifeData == {[title |-> <<"a">>, content |-> <<"c">>, owner |-> o] : o \in 1..MaxUsers}

Init ==
    /\ users = <<>>
    /\ notes = <<>>
    /\ nextUserId = 1
    /\ nextNoteId = 1
    /\ now = 0
    /\ request = [op |-> "none"]
    /\ response = [ok |-> TRUE]

Next ==
    \/ CreateUser
    \/ \E u \in 1..MaxUsers : DeleteUser(u)
    \/ \E d \in LifeData, t1, t2 \in Times : AddNote(d, t1, t2)
    \/ \E n \in 1..MaxNotes, d \in LifeData, t \in Times : ChangeNote(n, d, t)
    \/ \E n \in 1..MaxNotes : DeleteNote(n)

Spec == Init /\ [][Next]_vars

(***************************************************************************)
(* The write specification: every user exists, one note id is left, and    *)
(* writes of every shape are submitted.                                    *)
(***************************************************************************)
WriteTitles == {<<>>, <<"a">>, Rep("b", max_length), Rep("A", max_length + 1), Rep("A", 250)}

WriteContents == {<<>>, <<"c">>, <<"d">>}

WriteData == FormData(WriteTitles, WriteContents, 1..(MaxUsers + 1))

InitWrite ==
    /\ users = [u \in 1..MaxUsers |-> Uname(u)]
    /\ notes = <<>>
    /\ nextUserId = MaxUsers + 1
    /\ nextNoteId = MaxNotes
    /\ now = 0
    /\ request = [op |-> "none"]
    /\ response = [ok |-> TRUE]

NextWrite ==
    \/ \E d \in WriteData, t1, t2 \in Times : AddNote(d, t1, t2)
    \/ \E n \in 1..MaxNotes, d \in WriteData, t \in Times : ChangeNote(n, d, t)

SpecWrite == InitWrite /\ [][NextWrite]_vars

(***************************************************************************)
(* The listing specification: notes created one after the other are        *)
(* changed and listed.                                                     *)
(***************************************************************************)
ListIds == 1..(MaxNotes + 1)

InitList ==
    /\ users = [u \in 1..MaxUsers |-> Uname(u)]
    /\ \E t \in [ListIds -> Times] :
          /\ \A i, j \in ListIds : i <= j => t[i] <= t[j]
          /\ notes = [n \in ListIds |->
                         [title |-> <<"a">>, content |-> <<"c">>, owner |-> 1,
                          created_at |-> t[n], updated_at |-> t[n]]]
          /\ now = t[MaxNotes + 1]
    /\ nextUserId = MaxUsers + 1
    /\ nextNoteId = MaxNotes + 2
    /\ request = [op |-> "none"]
    /\ response = [ok |-> TRUE]

ListData == {[title |-> <<"a">>, content |-> c, owner |-> 1] : c \in {<<"c">>, <<"d">>}}

NextList ==
    \/ \E n \in ListIds, d \in ListData, t \in Times : ChangeNote(n, d, t)
    \/ \E base \in Perms(ListIds) : ListNotes(base)

SpecList == InitList /\ [][NextList]_vars

(***************************************************************************)
(* The search specification: notes of every text are searched.             *)
(***************************************************************************)
SearchTitles == {<<"A", "b">>, <<"b", "a">>}

SearchContents == {<<"b">>, <<"a", "a">>}

QueryChars == {"a", "B", " "}

Queries == UNION {[1..k -> QueryChars] : k \in 0..MaxQuery}

SearchOwner(n) == ((n - 1) % MaxUsers) + 1

InitSearch ==
    /\ users = [u \in 1..MaxUsers |-> Uname(u)]
    /\ \E t \in [1..MaxNotes -> SearchTitles], c \in [1..MaxNotes -> SearchContents] :
          notes = [n \in 1..MaxNotes |->
                      [title |-> t[n], content |-> c[n], owner |-> SearchOwner(n),
                       created_at |-> 0, updated_at |-> 0]]
    /\ nextUserId = MaxUsers + 1
    /\ nextNoteId = MaxNotes + 1
    /\ now = 0
    /\ request = [op |-> "none"]
    /\ response = [ok |-> TRUE]

NextSearch == \E q \in Queries : Search(q)

SpecSearch == InitSearch /\ [][NextSearch]_vars

(***************************************************************************)
(* The label specification: a note of every title length is labelled.      *)
(***************************************************************************)
LabelChar(i) == IF i % 3 = 0 THEN "a" ELSE IF i % 3 = 1 THEN "b" ELSE "c"

LabelTitles == {[i \in 1..n |-> LabelChar(i + k)] : n \in 1..max_length, k \in 0..2}

InitLabel ==
    /\ users = [u \in 1..MaxUsers |-> Uname(u)]
    /\ notes \in [{1} ->
                    [title : LabelTitles, content : {<<"c">>},
                     owner : {1}, created_at : {0}, updated_at : {0}]]
    /\ nextUserId = MaxUsers + 1
    /\ nextNoteId = 2
    /\ now = 0
    /\ request = [op |-> "none"]
    /\ response = [ok |-> TRUE]

NextLabel == \E n \in 1..MaxNotes : StrNote(n)

SpecLabel == InitLabel /\ [][NextLabel]_vars

(***************************************************************************)
(* The claims.                                                             *)
(***************************************************************************)
IsWrite(r) == r.op \in {"add", "change"}

Kept == DOMAIN notes \cap DOMAIN notes'

\* C1: in every reachable state, the owner of every persisted Note is a
\* row of the user table: no Note is left behind by the deletion of its
\* owner, which removes the user and its notes in one step.
C1_OwnerExists ==
    \A n \in DOMAIN notes : notes[n].owner \in DOMAIN users

\* A user that owned notes has just been deleted, and a note of another
\* user is still there.
C1_Witness ==
    /\ request.op = "delete_user"
    /\ response.deleted >= 1
    /\ \E n \in DOMAIN notes : notes[n].owner # request.id

\* C2: deleting user U removes exactly the Notes whose owner is U: the ids
\* left are those of the notes of other owners, and their rows are as they
\* were.
C2_DeleteUserFrame ==
    [][request'.op = "delete_user" =>
          /\ DOMAIN notes' = {n \in DOMAIN notes : notes[n].owner # request'.id}
          /\ \A n \in DOMAIN notes' : notes'[n] = notes[n]
          /\ request'.id \notin DOMAIN users']_vars

\* A user has just been deleted, one note went with it and one stays.
C2_Witness ==
    /\ request.op = "delete_user"
    /\ response.deleted = 1
    /\ Cardinality(DOMAIN notes) = 1

\* C3: created_at <= updated_at for every Note in every reachable state.
C3_CreatedBeforeUpdated ==
    \A n \in DOMAIN notes : notes[n].created_at <= notes[n].updated_at

\* A note has just been added and the clock moved between its two stamps.
C3_Witness ==
    /\ request.op = "add"
    /\ response.ok
    /\ notes[request.id].created_at < notes[request.id].updated_at

\* C4: a create or an update whose title is longer than 200 characters
\* fails with the tables as they were: no row is added, none is altered,
\* and no title of more than 200 characters, or cut to 200, is stored.
C4_TitleTooLong ==
    [][(IsWrite(request') /\ Given(request'.data, "title")
            /\ Len(request'.data.title) > 200) =>
          /\ ~response'.ok
          /\ <<"title", "max_length">> \in response'.errors
          /\ UNCHANGED tables]_vars

\* A change of an existing note to a title of 250 characters was rejected.
C4_Witness ==
    /\ request.op = "change"
    /\ request.data = [title |-> Rep("A", 250), content |-> <<"c">>, owner |-> 1]
    /\ ~response.ok
    /\ request.id \in DOMAIN notes
    /\ Len(notes[request.id].title) = 200

\* A write with a field missing, or with an owner that is no user.
Missing(d, us) ==
    \/ ~Given(d, "title")
    \/ ~Given(d, "content")
    \/ ~Given(d, "owner")
    \/ d.owner \notin DOMAIN us

\* A write that gives every field, a title of 1 to 200 characters and an
\* owner that exists, and whose content is the empty string.
EmptyContentOnly(d, us) ==
    /\ ~Missing(d, us)
    /\ d.title # <<>>
    /\ Len(d.title) <= 200
    /\ d.content = <<>>

\* C5 as claimed: a write with a missing field or a dangling owner is
\* rejected with the tables unchanged, and a write whose content is the
\* empty string is accepted.
C5_AsClaimed ==
    [][IsWrite(request') =>
          /\ Missing(request'.data, users) => (~response'.ok /\ UNCHANGED tables)
          /\ EmptyContentOnly(request'.data, users) => response'.ok]_vars

\* C5, amended: a write with a missing field or a dangling owner is
\* rejected, and so is a write whose content is the empty string (content
\* is declared without blank=True); a rejected write leaves the tables
\* unchanged.
C5_RejectedWrites ==
    [][IsWrite(request') =>
          /\ Missing(request'.data, users) => ~response'.ok
          /\ EmptyContentOnly(request'.data, users) =>
                (~response'.ok /\ response'.errors = {<<"content", "blank">>})
          /\ ~response'.ok => UNCHANGED tables]_vars

\* An add that gave every field validly but an empty content was rejected.
C5_Witness ==
    /\ request.op = "add"
    /\ request.data = [title |-> <<"a">>, content |-> <<>>, owner |-> 1]
    /\ ~response.ok
    /\ notes = <<>>

\* C6: created_at is set when the Note is created, to a reading of the
\* clock taken during the creation, and no later step changes it.
C6_CreatedAtFixed ==
    [][/\ \A n \in Kept : notes'[n].created_at = notes[n].created_at
       /\ \A n \in DOMAIN notes' \ DOMAIN notes :
             now <= notes'[n].created_at /\ notes'[n].created_at <= now']_vars

\* A note was changed after its creation, at a later reading of the clock.
C6_Witness ==
    /\ request.op = "change"
    /\ response.ok
    /\ notes[request.id].created_at < now

\* C7: updated_at is stamped at creation and again by every successful
\* update: after the step it is the clock's reading, not earlier than it
\* was, and no row changes without it.
C7_UpdatedAtRestamped ==
    [][/\ (IsWrite(request') /\ response'.ok) =>
             /\ request'.id \in DOMAIN notes'
             /\ notes'[request'.id].updated_at = now'
             /\ now' >= now
       /\ \A n \in Kept :
             /\ notes'[n].updated_at >= notes[n].updated_at
             /\ notes'[n] # notes[n] =>
                   (request'.op = "change" /\ request'.id = n
                      /\ notes'[n].updated_at = now')]_vars

\* A note was changed to another content at a later reading of the clock.
C7_Witness ==
    /\ request.op = "change"
    /\ response.ok
    /\ request.data.content = <<"d">>
    /\ notes[request.id].updated_at = now
    /\ notes[request.id].created_at < notes[request.id].updated_at

\* C8: a listing with no order asked for holds every Note once, by
\* descending updated_at: a Note modified later than another stands before
\* it.
C8_ListedNewestFirst ==
    request.op = "list" =>
        LET rows == response.rows
        IN  /\ Len(rows) = Cardinality(DOMAIN notes)
            /\ {rows[i] : i \in 1..Len(rows)} = DOMAIN notes
            /\ \A i, j \in 1..Len(rows) :
                  i < j => notes[rows[i]].updated_at >= notes[rows[j]].updated_at
            /\ \A i, j \in 1..Len(rows) :
                  notes[rows[i]].updated_at > notes[rows[j]].updated_at => i < j

\* Three notes of updated_at T1 < T2 < T3 are listed [T3, T2, T1], and the
\* first of the list is the oldest note, moved ahead by an update.
C8_Witness ==
    /\ request.op = "list"
    /\ Len(response.rows) = 3
    /\ notes[response.rows[1]].updated_at > notes[response.rows[2]].updated_at
    /\ notes[response.rows[2]].updated_at > notes[response.rows[3]].updated_at
    /\ response.rows[1] = 1
    /\ notes[1].created_at < notes[1].updated_at

\* The query is a substring of s, letter case ignored.
SubstringOf(q, s) ==
    \E k \in 0..(Len(s) - Len(q)) :
        \A m \in 1..Len(q) : Lower(s[k + m]) = Lower(q[m])

\* The query is a substring of one of the three texts of note n.
MatchesNote(q, n) ==
    \/ SubstringOf(q, notes[n].title)
    \/ SubstringOf(q, notes[n].content)
    \/ SubstringOf(q, users[notes[n].owner])

\* Positions i..j of q hold one of its words: a longest run without spaces.
IsWord(q, i, j) ==
    /\ i <= j
    /\ \A m \in i..j : q[m] # " "
    /\ i = 1 \/ q[i - 1] = " "
    /\ j = Len(q) \/ q[j + 1] = " "

\* C9 as claimed: a search returns exactly the Notes of which the query is
\* a case-insensitive substring of the title, the content or the owner's
\* username.
C9_AsClaimed ==
    request.op = "search" =>
        response.ids = {n \in DOMAIN notes : MatchesNote(request.q, n)}

\* C9, amended: a search returns exactly the Notes for which every word of
\* the query (the query split at its spaces) is a case-insensitive
\* substring of the title, the content or the owner's username; for a
\* query without spaces, those of which the query is such a substring.
C9_EveryWordMatches ==
    request.op = "search" =>
        /\ response.ids =
              {n \in DOMAIN notes :
                  \A i, j \in 1..Len(request.q) :
                      IsWord(request.q, i, j) => MatchesNote(SubSeq(request.q, i, j), n)}
        /\ (\A m \in 1..Len(request.q) : request.q[m] # " ") =>
              response.ids = {n \in DOMAIN notes : MatchesNote(request.q, n)}

\* The query "Aa" is in the content of note 1 alone, in no title and in no
\* username, and the search returns note 1 alone.
C9_Witness ==
    /\ request = [op |-> "search", q |-> <<"a", "a">>]
    /\ notes[1].content = <<"a", "a">>
    /\ notes[2].content = <<"b">>
    /\ response.ids = {1}

\* C10: the display label of a Note is the first min(len(title), 50)
\* characters of its title, and computing it changes neither table nor the
\* clock.
C10_LabelIsPrefix ==
    [][request'.op = "str" =>
          LET t == notes[request'.id].title
              l == response'.label
          IN  /\ Len(l) = IF Len(t) <= 50 THEN Len(t) ELSE 50
              /\ \A i \in 1..Len(l) : l[i] = t[i]
              /\ UNCHANGED <<tables, now>>]_vars

\* A title of 60 characters has been labelled with 50 characters.
C10_Witness ==
    /\ request.op = "str"
    /\ Len(notes[request.id].title) = 60
    /\ Len(response.label) = 50
=============================================================================
